---------------------------- MODULE Spec2Model ----------------------------
(***************************************************************************)
(* Model of the unified-diff parser (parsePatchFile) and the hunk applier  *)
(* (applyPatchToContent) of src/src/extension.ts.                          *)
(*                                                                         *)
(* A JavaScript string is modelled as a sequence of one-character strings, *)
(* so that split, join, startsWith, includes and the three regular         *)
(* expressions of the parser are computed character by character.          *)
(***************************************************************************)
EXTENDS Integers, Sequences, FiniteSets, TLC

(***************************************************************************)
(* String literals of the source.                                          *)
(***************************************************************************)
NL == "\n"

litDiffGit == <<"d", "i", "f", "f", " ", "-", "-", "g", "i", "t">>

litNewFileMode == <<"n", "e", "w", " ", "f", "i", "l", "e", " ", "m", "o", "d", "e">>

litDeletedFileMode == <<"d", "e", "l", "e", "t", "e", "d", " ", "f", "i", "l", "e", " ", "m", "o", "d", "e">>

litBinaryFiles == <<"B", "i", "n", "a", "r", "y", " ", "f", "i", "l", "e", "s">>

litOldMode == <<"o", "l", "d", " ", "m", "o", "d", "e">>

litNewMode == <<"n", "e", "w", " ", "m", "o", "d", "e">>

lit040000 == <<"0", "4", "0", "0", "0", "0">>

lit160000 == <<"1", "6", "0", "0", "0", "0">>

litAtAt == <<"@", "@">>

litAtAtMinus == <<"@", "@", " ", "-">>

litSpacePlus == <<" ", "+">>

litSpaceAtAt == <<" ", "@", "@">>

litASlash == <<"a", "/">>

litSpaceBSlash == <<" ", "b", "/">>

litQuote == "\""

litQuoteSpaceQuote == <<"\"", " ", "\"">>

Digits == {"0", "1", "2", "3", "4", "5", "6", "7", "8", "9"}

(***************************************************************************)
(* JavaScript string and array primitives used by the two functions.       *)
(***************************************************************************)
Min(a, b) == IF a <= b THEN a ELSE b

Max(a, b) == IF a >= b THEN a ELSE b

\* p occurs in s at (1-based) position i
occursAt(s, p, i) ==
    /\ i >= 1
    /\ i + Len(p) - 1 <= Len(s)
    /\ \A k \in 1..Len(p) : s[i + k - 1] = p[k]

startsWith(s, p) == occursAt(s, p, 1)

includes(s, p) == \E i \in 1..(Len(s) - Len(p) + 1) : occursAt(s, p, i)

\* first position >= from at which p occurs in s, 0 when there is none
indexOf(s, p, from) ==
    LET hits == {i \in from..(Len(s) - Len(p) + 1) : occursAt(s, p, i)}
    IN  IF hits = {} THEN 0 ELSE CHOOSE i \in hits : \A j \in hits : i <= j

\* last position >= from at which p occurs in s, 0 when there is none
lastIndexOf(s, p, from) ==
    LET hits == {i \in from..(Len(s) - Len(p) + 1) : occursAt(s, p, i)}
    IN  IF hits = {} THEN 0 ELSE CHOOSE i \in hits : \A j \in hits : i >= j

\* String.prototype.split with a non-empty string separator
RECURSIVE split(_, _)
split(s, sep) ==
    LET i == indexOf(s, sep, 1)
    IN  IF i = 0
        THEN <<s>>
        ELSE <<SubSeq(s, 1, i - 1)>> \o split(SubSeq(s, i + Len(sep), Len(s)), sep)

\* Array.prototype.join
RECURSIVE join(_, _)
join(arr, sep) ==
    IF Len(arr) = 0 THEN <<>>
    ELSE IF Len(arr) = 1 THEN arr[1]
    ELSE arr[1] \o sep \o join(Tail(arr), sep)

\* Array.prototype.pop, as the array it leaves behind
pop(arr) == IF Len(arr) = 0 THEN arr ELSE SubSeq(arr, 1, Len(arr) - 1)

\* String.prototype.substring(1)
substring1(s) == IF Len(s) = 0 THEN s ELSE SubSeq(s, 2, Len(s))

\* content.replace(/\n$/, '')
stripTrailingNewline(s) ==
    IF Len(s) > 0 /\ s[Len(s)] = NL THEN SubSeq(s, 1, Len(s) - 1) ELSE s

\* variant: a deleteCount that reaches past the end removes nothing
splice_NothingPastEnd(arr, start, deleteCount, items) ==
    LET len == Len(arr)
        actualStart == IF start < 0 THEN Max(len + start, 0) ELSE Min(start, len)
        actualDelete == IF actualStart + deleteCount > len THEN 0 ELSE Max(deleteCount, 0)
    IN  SubSeq(arr, 1, actualStart) \o items
            \o SubSeq(arr, actualStart + actualDelete + 1, len)

\* Array.prototype.splice(start, deleteCount, ...items), start 0-based,
\* with the clamping of start and deleteCount that ECMAScript prescribes
splice(arr, start, deleteCount, items) ==
    LET len == Len(arr)
        actualStart == IF start < 0 THEN Max(len + start, 0) ELSE Min(start, len)
        actualDelete == Min(Max(deleteCount, 0), len - actualStart)
    IN  SubSeq(arr, 1, actualStart) \o items
            \o SubSeq(arr, actualStart + actualDelete + 1, len)

DigitVal(c) ==
    CASE c = "0" -> 0 [] c = "1" -> 1 [] c = "2" -> 2 [] c = "3" -> 3
      [] c = "4" -> 4 [] c = "5" -> 5 [] c = "6" -> 6 [] c = "7" -> 7
      [] c = "8" -> 8 [] c = "9" -> 9

\* parseInt(s, 10) of a non-empty string of decimal digits
RECURSIVE parseInt(_)
parseInt(s) ==
    IF Len(s) = 0 THEN 0
    ELSE 10 * parseInt(SubSeq(s, 1, Len(s) - 1)) + DigitVal(s[Len(s)])

(***************************************************************************)
(* The regular expressions of parsePatchFile.                              *)
(***************************************************************************)
NoMatch == [ok |-> FALSE]

\* lines[0].match(/a\/(.*) b\/(.*)/): leftmost "a/", then the greedy (.*)
\* runs to the last " b/" of the line, and group 2 is the rest of the line
matchPathAB(line) ==
    LET k == lastIndexOf(line, litSpaceBSlash, 3)
        i == IF k = 0 THEN 0
             ELSE LET j == indexOf(line, litASlash, 1)
                  IN  IF j /= 0 /\ j + 2 <= k THEN j ELSE 0
    IN  IF i = 0 THEN NoMatch
        ELSE [ok |-> TRUE,
              g1 |-> SubSeq(line, i + 2, k - 1),
              g2 |-> SubSeq(line, k + 3, Len(line))]

\* lines[0].match(/\"(.*)\" \"(.*)\"/): leftmost quote, the first greedy
\* group runs to the last `" "` that still has a quote after it, the second
\* one to the last quote of the line
matchPathQuoted(line) ==
    LET i == indexOf(line, <<litQuote>>, 1)
        m == lastIndexOf(line, <<litQuote>>, 1)
        ks == {k \in (i + 1)..(m - 3) : occursAt(line, litQuoteSpaceQuote, k)}
    IN  IF i = 0 \/ ks = {} THEN NoMatch
        ELSE LET k == CHOOSE x \in ks : \A y \in ks : x >= y
             IN  [ok |-> TRUE,
                  g1 |-> SubSeq(line, i + 1, k - 1),
                  g2 |-> SubSeq(line, k + 3, m - 1)]

\* end of the longest run of digits that starts at position p (p - 1: none)
RECURSIVE digitRunEnd(_, _)
digitRunEnd(s, p) ==
    IF p <= Len(s) /\ s[p] \in Digits THEN digitRunEnd(s, p + 1) ELSE p - 1

\* (\d+)(?:,(\d+))? read at position p: the start digits, the optional
\* count digits (has = FALSE when the group did not take part), and the
\* position after them
matchRange(s, p) ==
    LET e1 == digitRunEnd(s, p)
    IN  IF e1 < p THEN NoMatch
        ELSE IF e1 + 1 <= Len(s) /\ s[e1 + 1] = ","
             THEN LET e2 == digitRunEnd(s, e1 + 2)
                  IN  IF e2 < e1 + 2 THEN NoMatch
                      ELSE [ok |-> TRUE, start |-> SubSeq(s, p, e1), has |-> TRUE,
                            count |-> SubSeq(s, e1 + 2, e2), next |-> e2 + 1]
             ELSE [ok |-> TRUE, start |-> SubSeq(s, p, e1), has |-> FALSE,
                   count |-> <<>>, next |-> e1 + 1]

\* /@@ -(\d+)(?:,(\d+))? \+(\d+)(?:,(\d+))? @@/ tried at position p
matchHunkHeaderAt(line, p) ==
    IF ~occursAt(line, litAtAtMinus, p) THEN NoMatch
    ELSE LET old == matchRange(line, p + 4)
         IN  IF ~old.ok \/ ~occursAt(line, litSpacePlus, old.next) THEN NoMatch
             ELSE LET new == matchRange(line, old.next + 2)
                  IN  IF ~new.ok \/ ~occursAt(line, litSpaceAtAt, new.next)
                      THEN NoMatch
                      ELSE [ok |-> TRUE, old |-> old, new |-> new]

\* line.match(/@@ -(\d+)(?:,(\d+))? \+(\d+)(?:,(\d+))? @@/): the pattern is
\* not anchored, the leftmost position that matches wins
matchHunkHeader(line) ==
    LET hits == {p \in 1..Len(line) : matchHunkHeaderAt(line, p).ok}
    IN  IF hits = {} THEN NoMatch
        ELSE matchHunkHeaderAt(line, CHOOSE p \in hits : \A q \in hits : p <= q)

(***************************************************************************)
(* parsePatchFile (src/src/extension.ts, 1255-1400).                       *)
(***************************************************************************)
HeaderScanLimit == 10

\* the loop "for (let j = 1; j < Math.min(lines.length, 10); j++)" with its
\* two break statements; j is the JavaScript (0-based) index
RECURSIVE scanHeaders(_, _, _)
scanHeaders(lines, j, st) ==
    IF j >= Min(Len(lines), HeaderScanLimit) THEN st
    ELSE LET line == lines[j + 1]
             isNew == st.isNew \/ includes(line, litNewFileMode)
             isDeleted == st.isDeleted \/ includes(line, litDeletedFileMode)
         IN  IF includes(line, litBinaryFiles)
             THEN [fileType |-> "binary", isNew |-> isNew, isDeleted |-> isDeleted]
             ELSE IF /\ includes(line, litOldMode)
                     /\ includes(line, litNewMode)
                     /\ (includes(line, lit040000) \/ includes(line, lit160000))
             THEN [fileType |-> "directory", isNew |-> isNew, isDeleted |-> isDeleted]
             ELSE scanHeaders(lines, j + 1,
                      [fileType |-> st.fileType, isNew |-> isNew, isDeleted |-> isDeleted])

\* variant: an omitted count read as 0
countOrDefault_Zero(r) == IF r.has THEN parseInt(r.count) ELSE 0

\* "hunkHeaderMatch[2] ? parseInt(hunkHeaderMatch[2], 10) : 1"
countOrDefault(r) == IF r.has THEN parseInt(r.count) ELSE 1

\* the object literal assigned to currentHunk after a header matched
hunkOfHeader(m) ==
    [oldStartLine |-> parseInt(m.old.start),
     oldLineCount |-> countOrDefault(m.old),
     newStartLine |-> parseInt(m.new.start),
     newLineCount |-> countOrDefault(m.new),
     content |-> <<>>]

initialHunk ==
    [oldStartLine |-> 0, oldLineCount |-> 0, newStartLine |-> 0,
     newLineCount |-> 0, content |-> <<>>]

\* the loop "for (let j = 1; j < lines.length; j++)" over the segment's
\* lines; st = [inHunk, currentHunk, hunks].  A line that starts with "@@"
\* first closes the open hunk (content stripped in place, a copy pushed) and
\* only then is matched against the header pattern.
RECURSIVE scanHunks(_, _, _)
scanHunks(lines, j, st) ==
    IF j >= Len(lines) THEN st
    ELSE LET line == lines[j + 1]
         IN  IF startsWith(line, litAtAt)
             THEN LET cur == IF st.inHunk
                             THEN [st.currentHunk EXCEPT !.content = stripTrailingNewline(@)]
                             ELSE st.currentHunk
                      hunks == IF st.inHunk THEN Append(st.hunks, cur) ELSE st.hunks
                      m == matchHunkHeader(line)
                  IN  IF m.ok
                      THEN scanHunks(lines, j + 1,
                               [inHunk |-> TRUE, currentHunk |-> hunkOfHeader(m), hunks |-> hunks])
                      ELSE scanHunks(lines, j + 1,
                               [inHunk |-> st.inHunk, currentHunk |-> cur, hunks |-> hunks])
             ELSE IF st.inHunk
             THEN scanHunks(lines, j + 1,
                      [st EXCEPT !.currentHunk.content = @ \o line \o <<NL>>])
             ELSE scanHunks(lines, j + 1, st)

\* the hunks of a segment: the loop above, then "Add the last hunk"
parseHunks(lines) ==
    LET st == scanHunks(lines, 1, [inHunk |-> FALSE, currentHunk |-> initialHunk, hunks |-> <<>>])
    IN  IF st.inHunk
        THEN Append(st.hunks, [st.currentHunk EXCEPT !.content = stripTrailingNewline(@)])
        ELSE st.hunks

\* variant: the hunk loop also runs for directory and binary records
hunksForType_NoSkip(fileType, lines) == parseHunks(lines)

\* the hunks pushed for a record of the given fileType: the two early
\* "continue" branches push hunks: [] and never reach the hunk loop
hunksForType(fileType, lines) ==
    IF fileType = "directory" \/ fileType = "binary" THEN <<>> ELSE parseHunks(lines)

NoRecord ==
    [filePath |-> <<>>, fileType |-> "file", isNew |-> FALSE, isDeleted |-> FALSE,
     hunks |-> <<>>]

\* one iteration of the loop over diffFiles: "throw" when lines[0] is
\* undefined (lines is empty after pop()), "skip" on the continue that
\* follows two failed path matches, "record" otherwise
parseSegment(diffContent) ==
    LET lines == pop(split(diffContent, <<NL>>))
    IN  IF Len(lines) = 0 THEN [kind |-> "throw", rec |-> NoRecord]
        ELSE LET ab == matchPathAB(lines[1])
                 filePathMatch == IF ab.ok THEN ab ELSE matchPathQuoted(lines[1])
             IN  IF ~filePathMatch.ok THEN [kind |-> "skip", rec |-> NoRecord]
                 ELSE LET cls == scanHeaders(lines, 1,
                                     [fileType |-> "file", isNew |-> FALSE, isDeleted |-> FALSE])
                      IN  [kind |-> "record",
                           rec |-> [filePath |-> filePathMatch.g2,
                                    fileType |-> cls.fileType,
                                    isNew |-> cls.isNew,
                                    isDeleted |-> cls.isDeleted,
                                    hunks |-> hunksForType(cls.fileType, lines)]]

\* "for (let i = 1; i < diffFiles.length; i++)": an exception in one
\* iteration leaves the function without a return value
RECURSIVE parseSegments(_, _, _)
parseSegments(diffFiles, i, acc) ==
    IF i >= Len(diffFiles) THEN [threw |-> FALSE, fileChanges |-> acc]
    ELSE LET r == parseSegment(diffFiles[i + 1])
         IN  IF r.kind = "throw" THEN [threw |-> TRUE, fileChanges |-> <<>>]
             ELSE IF r.kind = "skip" THEN parseSegments(diffFiles, i + 1, acc)
             ELSE parseSegments(diffFiles, i + 1, Append(acc, r.rec))

parsePatchFile(patchContent) == parseSegments(split(patchContent, litDiffGit), 1, <<>>)

(***************************************************************************)
(* applyPatchToContent (src/src/extension.ts, 1403-1431).                  *)
(***************************************************************************)
\* insertion of h behind every element whose oldStartLine is not smaller:
\* Array.prototype.sort is stable, equal keys keep their order
RECURSIVE insertByOldStartDesc(_, _)
insertByOldStartDesc(sorted, h) ==
    IF Len(sorted) = 0 THEN <<h>>
    ELSE IF Head(sorted).oldStartLine >= h.oldStartLine
    THEN <<Head(sorted)>> \o insertByOldStartDesc(Tail(sorted), h)
    ELSE <<h>> \o sorted

\* variant: the hunks taken in the order of change.hunks
sortedHunks_Unsorted(hunks) == hunks

\* [...change.hunks].sort((a, b) => b.oldStartLine - a.oldStartLine)
RECURSIVE sortedHunks(_)
sortedHunks(hunks) ==
    IF Len(hunks) = 0 THEN <<>>
    ELSE insertByOldStartDesc(sortedHunks(pop(hunks)), hunks[Len(hunks)])

\* variant: an added line kept with its tag character
lineToInsert_KeepPlus(hunkLine) ==
    IF startsWith(hunkLine, <<"+">>) THEN <<hunkLine>>
    ELSE IF startsWith(hunkLine, <<"-">>) \/ startsWith(hunkLine, <<"\\">>) THEN <<>>
    ELSE <<substring1(hunkLine)>>

\* variant: no test for the backslash, the marker line falls into the
\* context branch
lineToInsert_MarkerAsContext(hunkLine) ==
    IF startsWith(hunkLine, <<"+">>) THEN <<substring1(hunkLine)>>
    ELSE IF startsWith(hunkLine, <<"-">>) THEN <<>>
    ELSE <<substring1(hunkLine)>>

\* variant: a context line kept with its tag character
lineToInsert_KeepTag(hunkLine) ==
    IF startsWith(hunkLine, <<"+">>) THEN <<substring1(hunkLine)>>
    ELSE IF startsWith(hunkLine, <<"-">>) \/ startsWith(hunkLine, <<"\\">>) THEN <<>>
    ELSE <<hunkLine>>

\* the contribution of one hunk line to linesToInsert
lineToInsert(hunkLine) ==
    IF startsWith(hunkLine, <<"+">>) THEN <<substring1(hunkLine)>>
    ELSE IF startsWith(hunkLine, <<"-">>) \/ startsWith(hunkLine, <<"\\">>) THEN <<>>
    ELSE <<substring1(hunkLine)>>

\* the loop "for (const hunkLine of hunkLines)"
RECURSIVE linesToInsert(_)
linesToInsert(hunkLines) ==
    IF Len(hunkLines) = 0 THEN <<>>
    ELSE lineToInsert(Head(hunkLines)) \o linesToInsert(Tail(hunkLines))

\* variant: the splice starts at oldStartLine instead of oldStartLine - 1
applyHunk_OffByOne(lines, hunk) ==
    splice(lines, hunk.oldStartLine, hunk.oldLineCount,
           linesToInsert(split(hunk.content, <<NL>>)))

\* one iteration of "for (const hunk of sortedHunks)"
applyHunk(lines, hunk) ==
    splice(lines, hunk.oldStartLine - 1, hunk.oldLineCount,
           linesToInsert(split(hunk.content, <<NL>>)))

RECURSIVE applyHunks(_, _)
applyHunks(lines, hunks) ==
    IF Len(hunks) = 0 THEN lines
    ELSE applyHunks(applyHunk(lines, Head(hunks)), Tail(hunks))

\* the function has no guard and no throw statement: every call returns
applyPatchToContent(originalContent, change) ==
    [threw |-> FALSE,
     content |-> join(applyHunks(split(originalContent, <<NL>>), sortedHunks(change.hunks)),
                      <<NL>>)]

\* variant: change.hunks.sort(...) without the copy, which sorts the
\* argument's own array
hunksArrayAfterCall_SortedInPlace(hunks) == sortedHunks(hunks)

\* change.hunks after the call: "[...change.hunks]" copies the array before
\* sort() reorders it, and the loop only reads the hunk objects
hunksArrayAfterCall(hunks) == hunks

\* the FileChange object after the call: no statement assigns to a field
changeAfterCall(change) == [change EXCEPT !.hunks = hunksArrayAfterCall(@)]

\* variant: "lines" kept in one module-level array that every call uses
bufferOf_Shared(w) == 1

\* the array a call works on: "let lines" is a local of the function, so
\* the call of worker w has an array of its own
bufferOf(w) == w

(***************************************************************************)
(* Inputs.  A diff text is described by its structure (preamble, segments, *)
(* lines) and written out as characters; the parser only sees the          *)
(* characters, the properties below refer to the structure.                *)
(***************************************************************************)
MaxSegs == 2

MaxHeaderLines == 3

MaxHunks == 2

MaxBody == 2

SeqsUpTo(S, n) == UNION {[1..k -> S] : k \in 0..n}

RECURSIVE Flatten(_)
Flatten(ss) == IF Len(ss) = 0 THEN <<>> ELSE Head(ss) \o Flatten(Tail(ss))

txtNewFile == <<"n", "e", "w", " ", "f", "i", "l", "e", " ", "m", "o", "d", "e", " ", "1", "0", "0", "6", "4", "4">>

txtDeletedFile == <<"d", "e", "l", "e", "t", "e", "d", " ", "f", "i", "l", "e", " ", "m", "o", "d", "e", " ", "1", "0", "0", "6", "4", "4">>

txtIndex == <<"i", "n", "d", "e", "x", " ", "1", ".", ".", "2">>

txtBinary == <<"B", "i", "n", "a", "r", "y", " ", "f", "i", "l", "e", "s", " ", "a", "/", "f", " ", "a", "n", "d", " ", "b", "/", "f", " ", "d", "i", "f", "f", "e", "r">>

txtDirMode == <<"o", "l", "d", " ", "m", "o", "d", "e", " ", "1", "0", "0", "6", "4", "4", " ", "n", "e", "w", " ", "m", "o", "d", "e", " ", "0", "4", "0", "0", "0", "0">>

txtCtxA == <<" ", "a">>

txtDelB == <<"-", "b">>

txtAddC == <<"+", "c">>

txtAddBinary == <<"+", "B", "i", "n", "a", "r", "y", " ", "f", "i", "l", "e", "s", " ", "x">>

txtAddDeleted == <<"+", "d", "e", "l", "e", "t", "e", "d", " ", "f", "i", "l", "e", " ", "m", "o", "d", "e">>

txtBadHeader == <<"@", "@", " ", "b", "a", "d">>

txtOldMode644 == <<"o", "l", "d", " ", "m", "o", "d", "e", " ", "1", "0", "0", "6", "4", "4">>

txtNewMode755 == <<"n", "e", "w", " ", "m", "o", "d", "e", " ", "1", "0", "0", "7", "5", "5">>

txtNewMode040 == <<"n", "e", "w", " ", "m", "o", "d", "e", " ", "0", "4", "0", "0", "0", "0">>

txtNewMode160 == <<"n", "e", "w", " ", "m", "o", "d", "e", " ", "1", "6", "0", "0", "0", "0">>

txtSignature == <<"-", "-", " ">>

txtGitVersion == <<"2", ".", "3", "0", ".", "0">>

txtPreamble == <<"F", "r", "o", "m", " ", "1", "a", "2", "b", "\n">>

\* a line of a segment: kind is "meta" (extended header line), "body" (a
\* tagged hunk line), "hdr" (the hunk header @@ -a[,b] +c[,d] @@), "bad"
\* (a line that starts with @@ and is no hunk header) or "trail" (text that
\* follows the last hunk line: a blank line, a mail signature)
Ln(kind, text) ==
    [kind |-> kind, text |-> text, a |-> 0, hasB |-> FALSE, b |-> 0,
     c |-> 0, hasD |-> FALSE, d |-> 0]

Hd(a, hasB, b, c, hasD, d) ==
    [kind |-> "hdr", text |-> <<>>, a |-> a, hasB |-> hasB, b |-> b,
     c |-> c, hasD |-> hasD, d |-> d]

DigitChar(n) == <<"0", "1", "2", "3", "4", "5", "6", "7", "8", "9">>[n + 1]

RECURSIVE Dec(_)
Dec(n) == IF n < 10 THEN <<DigitChar(n)>> ELSE Dec(n \div 10) \o <<DigitChar(n % 10)>>

LineText(l) ==
    IF l.kind = "hdr"
    THEN <<"@", "@", " ", "-">> \o Dec(l.a) \o (IF l.hasB THEN <<",">> \o Dec(l.b) ELSE <<>>)
            \o <<" ", "+">> \o Dec(l.c) \o (IF l.hasD THEN <<",">> \o Dec(l.d) ELSE <<>>)
            \o <<" ", "@", "@">>
    ELSE l.text

\* the rest of the "diff --git" line: form "ab" is ` a/<from> b/<to>`, form
\* "quoted" is ` "a/<from>" "b/<to>"`, form "none" carries no path pair
PathLine(p) ==
    IF p.form = "ab" THEN <<" ", "a", "/">> \o p.from \o <<" ", "b", "/">> \o p.to
    ELSE IF p.form = "quoted"
    THEN <<" ", "\"", "a", "/">> \o p.from \o <<"\"", " ", "\"", "b", "/">> \o p.to \o <<"\"">>
    ELSE <<" ">> \o p.to

RECURSIVE LinesText(_)
LinesText(ls) == IF Len(ls) = 0 THEN <<>> ELSE LineText(Head(ls)) \o <<NL>> \o LinesText(Tail(ls))

SegText(seg) == <<"d", "i", "f", "f", " ", "-", "-", "g", "i", "t">> \o PathLine(seg.path) \o <<NL>> \o LinesText(seg.lines)

RECURSIVE SegsText(_)
SegsText(segs) == IF Len(segs) = 0 THEN <<>> ELSE SegText(Head(segs)) \o SegsText(Tail(segs))

\* the diff text; nl = FALSE leaves the last line without its terminator
DiffText(in) ==
    LET full == in.pre \o SegsText(in.segs)
    IN  IF ~in.nl /\ Len(full) > 0 /\ full[Len(full)] = NL
        THEN SubSeq(full, 1, Len(full) - 1)
        ELSE full

PathF == [form |-> "ab", from |-> <<"f">>, to |-> <<"f">>]

Paths ==
    {PathF,
     [form |-> "ab", from |-> <<"f">>, to |-> <<"g">>],
     [form |-> "quoted", from |-> <<"h">>, to |-> <<"h">>],
     [form |-> "none", from |-> <<"n">>, to |-> <<"n">>]}

Heads ==
    {Hd(1, TRUE, 3, 1, TRUE, 4), Hd(5, FALSE, 0, 5, FALSE, 0),
     Hd(5, FALSE, 0, 5, TRUE, 2), Hd(10, TRUE, 0, 12, FALSE, 0)}

BodyLines == {Ln("body", txtCtxA), Ln("body", txtDelB), Ln("body", txtAddC)}

\* lines that carry or imitate a classification marker, a hunk header and
\* two added lines whose text contains a marker
ClassLines ==
    {Ln("meta", txtNewFile), Ln("meta", txtDeletedFile), Ln("meta", txtBinary),
     Ln("meta", txtDirMode), Hd(1, FALSE, 0, 1, FALSE, 0),
     Ln("body", txtAddBinary), Ln("body", txtAddDeleted)}

Filler(n) == [i \in 1..n |-> Ln("meta", txtIndex)]

\* several segments, with or without a preamble and a final line terminator
SimpleSegs ==
    [path : Paths,
     lines : {<<>>, <<Ln("meta", txtNewFile)>>, <<Ln("meta", txtBinary)>>,
              <<Hd(5, FALSE, 0, 5, FALSE, 0), Ln("body", txtDelB), Ln("body", txtAddC)>>}]

SegmentInputs ==
    [pre : {<<>>, txtPreamble}, segs : SeqsUpTo(SimpleSegs, MaxSegs), nl : BOOLEAN]

\* one segment of header lines, after no or HeaderScanLimit - 1 filler lines
HeaderInputs ==
    {[pre |-> <<>>, segs |-> <<[path |-> PathF, lines |-> Filler(pad) \o ls]>>, nl |-> TRUE] :
        pad \in {0, HeaderScanLimit - 1}, ls \in SeqsUpTo(ClassLines, MaxHeaderLines)}

\* one segment of up to MaxHunks hunks with one of two bodies, or of one hunk
\* with any body of up to MaxBody lines
HunkSpecs ==
    [head : Heads, body : {<<Ln("body", txtAddC)>>, <<Ln("body", txtDelB), Ln("body", txtAddC)>>}]

HunkLists ==
    SeqsUpTo(HunkSpecs, MaxHunks)
        \cup {<<hs>> : hs \in [head : Heads, body : SeqsUpTo(BodyLines, MaxBody)]}

HunkInputs ==
    {[pre |-> <<>>,
      segs |-> <<[path |-> PathF,
                  lines |-> Flatten([k \in 1..Len(hs) |-> <<hs[k].head>> \o hs[k].body])]>>,
      nl |-> TRUE] :
        hs \in HunkLists}

\* one segment of hunk headers, body lines and malformed "@@" lines
MalformedLines ==
    {Hd(5, FALSE, 0, 5, FALSE, 0), Ln("body", txtDelB), Ln("body", txtAddC),
     Ln("bad", txtBadHeader)}

MalformedInputs ==
    {[pre |-> <<>>, segs |-> <<[path |-> PathF, lines |-> ls]>>, nl |-> TRUE] :
        ls \in SeqsUpTo(MalformedLines, MaxHunks + MaxBody)}

\* one segment whose paths differ or contain the characters " b/"
pathXBY == <<"x", " ", "b", "/", "y">>

RenamePaths ==
    [form : {"ab"}, from : {<<"f">>, pathXBY}, to : {<<"f">>, <<"g">>, pathXBY}]

PathInputs ==
    {[pre |-> <<>>, segs |-> <<[path |-> p, lines |-> ls]>>, nl |-> TRUE] :
        p \in RenamePaths,
        ls \in {<<>>, <<Hd(5, FALSE, 0, 5, FALSE, 0), Ln("body", txtAddC)>>}}

\* one file under both header forms: a/f b/f, then "a/f" "b/f"
SameFileInputs ==
    {[pre |-> <<>>,
      segs |-> <<[path |-> PathF, lines |-> ls],
                 [path |-> [form |-> "quoted", from |-> <<"f">>, to |-> <<"f">>], lines |-> ls]>>,
      nl |-> TRUE] :
        ls \in {<<>>, <<Hd(5, FALSE, 0, 5, FALSE, 0), Ln("body", txtAddC)>>}}

\* one segment of mode lines, written on two lines as git does or on one
ModeLines ==
    {Ln("meta", txtOldMode644), Ln("meta", txtNewMode755), Ln("meta", txtNewMode040),
     Ln("meta", txtNewMode160), Ln("meta", txtDirMode), Ln("meta", txtNewFile),
     Hd(1, FALSE, 0, 1, FALSE, 0)}

ModeInputs ==
    {[pre |-> <<>>, segs |-> <<[path |-> PathF, lines |-> ls]>>, nl |-> TRUE] :
        ls \in SeqsUpTo(ModeLines, MaxHeaderLines)}

\* one segment with the hunk -1 +1 [-a, +c], followed by nothing, by a
\* blank line or by the signature of a mailed patch
Trailers ==
    {<<>>, <<Ln("trail", <<>>)>>, <<Ln("trail", txtSignature), Ln("trail", txtGitVersion)>>}

TrailerInputs ==
    {[pre |-> <<>>,
      segs |-> <<[path |-> PathF,
                  lines |-> <<Hd(1, hasCounts, 1, 1, hasCounts, 1), Ln("body", <<"-", "a">>),
                              Ln("body", txtAddC)>> \o tr]>>,
      nl |-> TRUE] :
        hasCounts \in BOOLEAN, tr \in Trailers}

ParseInputs ==
    SegmentInputs \cup HeaderInputs \cup HunkInputs \cup MalformedInputs
        \cup PathInputs \cup ModeInputs \cup TrailerInputs \cup SameFileInputs

(***************************************************************************)
(* State.                                                                  *)
(***************************************************************************)
VARIABLES
    pc,               \* "start", then "parsed" or "applied"
    input,            \* the structure of the diff text given to the parser
    patchContent,     \* parsePatchFile's argument
    parsed,           \* what the call of parsePatchFile produced
    call,             \* the structure of the applier's arguments
    originalContent,  \* applyPatchToContent's first argument
    change,           \* applyPatchToContent's second argument
    applied,          \* what the call of applyPatchToContent produced
    tasks,            \* per worker: its call of applyPatchToContent, step by step
    linesBuf,         \* the "lines" arrays of the calls in progress
    hpc,              \* where the git-patch.applyPatch handler stands
    answer,           \* what the user chose at the confirmation prompt
    fs,               \* the workspace: per path, whether it exists and its content
    unwritable,       \* paths on which writeFileSync and unlinkSync throw
    fsBefore,         \* the workspace when the command was started
    tempFiles,        \* targets whose .temp_ file exists
    supportedChanges, \* step 4: the items to write
    deletedFiles,     \* step 4: the items to delete
    applierCalls,     \* the records handed to applyPatchToContent, in order
    panel,            \* "none", "open" or "disposed"
    isApplying,       \* showLiveDiffPreview's flag
    changesApplied,   \* showLiveDiffPreview's flag
    backups,          \* showLiveDiffPreview's map from path to content
    preview,          \* where startLivePreview stands
    promise,          \* "none", "pending", "true" or "false"
    successCount,     \* step 7
    errorCount,       \* step 7
    report,           \* the message the handler ends with
    attempts          \* the items whose write or deletion has been attempted

vars ==
    <<pc, input, patchContent, parsed, call, originalContent, change, applied,
      tasks, linesBuf, hpc, answer, fs, unwritable, fsBefore, tempFiles, supportedChanges, deletedFiles,
      applierCalls, panel, isApplying, changesApplied, backups, preview, promise,
      successCount, errorCount, report, attempts>>

parseVars == <<input, patchContent, parsed>>

applyVars == <<call, originalContent, change, applied>>

taskVars == <<tasks, linesBuf>>

handlerVars ==
    <<hpc, answer, fs, unwritable, fsBefore, tempFiles, supportedChanges, deletedFiles, applierCalls,
      panel, isApplying, changesApplied, backups, preview, promise, successCount,
      errorCount, report, attempts>>

Files == {<<"f">>, <<"g">>}

Absent == [exists |-> FALSE, content |-> <<>>]

FileWith(content) == [exists |-> TRUE, content |-> content]

NoPreview == [phase |-> "mod", i |-> 1, at |-> "none"]

NoHandler ==
    /\ hpc = "idle"
    /\ answer = "none"
    /\ fs = [p \in Files |-> Absent]
    /\ unwritable = {}
    /\ fsBefore = [p \in Files |-> Absent]
    /\ tempFiles = {}
    /\ supportedChanges = <<>>
    /\ deletedFiles = <<>>
    /\ applierCalls = <<>>
    /\ panel = "none"
    /\ isApplying = FALSE
    /\ changesApplied = FALSE
    /\ backups = [p \in {} |-> <<>>]
    /\ preview = NoPreview
    /\ promise = "none"
    /\ successCount = 0
    /\ errorCount = 0
    /\ report = "none"
    /\ attempts = {}

Workers == {1, 2}

NoTask ==
    [pc |-> "idle", call |-> [origLines |-> <<<<>>>>, fileType |-> "file", isNew |-> FALSE,
                              isDeleted |-> FALSE, hunks |-> <<>>],
     originalContent |-> <<>>, change |-> NoRecord, sortedHunks |-> <<>>, result |-> <<>>]

NoTasks == tasks = [w \in Workers |-> NoTask] /\ linesBuf = [w \in Workers |-> <<>>]

NotCalled == [threw |-> FALSE, fileChanges |-> <<>>]

NotApplied == [threw |-> FALSE, content |-> <<>>]

NoInput == [pre |-> <<>>, segs |-> <<>>, nl |-> TRUE]

NoCall ==
    [origLines |-> <<<<>>>>, fileType |-> "file", isNew |-> FALSE, isDeleted |-> FALSE,
     hunks |-> <<>>]

InitParse ==
    /\ pc = "start"
    /\ input \in ParseInputs
    /\ patchContent = DiffText(input)
    /\ parsed = NotCalled
    /\ call = NoCall
    /\ originalContent = <<>>
    /\ change = NoRecord
    /\ applied = NotApplied
    /\ NoTasks
    /\ NoHandler

\* const fileChanges = parsePatchFile(patchContent);
ParsePatchFile ==
    /\ pc = "start"
    /\ parsed' = parsePatchFile(patchContent)
    /\ pc' = "parsed"
    /\ UNCHANGED <<input, patchContent>>
    /\ UNCHANGED applyVars
    /\ UNCHANGED taskVars
    /\ UNCHANGED handlerVars

NextParse == ParsePatchFile

SpecParse == InitParse /\ [][NextParse]_vars

(***************************************************************************)
(* What the structure of the input says about the parse.                   *)
(***************************************************************************)
Parsed == pc = "parsed"

Records == parsed.fileChanges

\* the segment's "diff --git" line carries one of the two path forms
HasPath(seg) == seg.path.form /= "none"

\* position, among the records, of the record of segment i
RecIndex(i) == Cardinality({j \in 1..i : HasPath(input.segs[j])})

IsHdr(l) == l.kind = "hdr"

HdrLines(ls) == SelectSeq(ls, IsHdr)

\* the four numbers a header line stands for
Interp(h) ==
    [oldStartLine |-> h.a, oldLineCount |-> IF h.hasB THEN h.b ELSE 1,
     newStartLine |-> h.c, newLineCount |-> IF h.hasD THEN h.d ELSE 1]

Numbers(hunk) ==
    [oldStartLine |-> hunk.oldStartLine, oldLineCount |-> hunk.oldLineCount,
     newStartLine |-> hunk.newStartLine, newLineCount |-> hunk.newLineCount]

EndsWith(s, p) == Len(p) <= Len(s) /\ SubSeq(s, Len(s) - Len(p) + 1, Len(s)) = p

\* number of lines of a hunk's content whose first character is in tags
TaggedLines(content, tags) ==
    Cardinality({i \in 1..Len(content) :
                    (i = 1 \/ content[i - 1] = NL) /\ content[i] \in tags})

IsBinaryMarker(l) == l.kind = "meta" /\ l.text = txtBinary

IsDirectoryMarker(l) == l.kind = "meta" /\ l.text = txtDirMode

\* the first classification marker among the first HeaderScanLimit - 1 lines
\* after the "diff --git" line is a "Binary files ... differ" line
BinaryInHeaderBlock(ls) ==
    \E p \in 1..Min(Len(ls), HeaderScanLimit - 1) :
        /\ IsBinaryMarker(ls[p])
        /\ \A q \in 1..(p - 1) : ~IsDirectoryMarker(ls[q])

(***************************************************************************)
(* Claims about parsePatchFile, checked under SpecParse.                   *)
(***************************************************************************)

\* a segment as git writes it for a text file: extended header lines
\* without a binary or directory marker, then hunks (header and body lines)
TextFileSegment(ls) ==
    \E p \in 1..Len(ls) :
        /\ IsHdr(ls[p])
        /\ \A q \in 1..(p - 1) :
               ls[q].kind = "meta" /\ ~IsBinaryMarker(ls[q]) /\ ~IsDirectoryMarker(ls[q])
        /\ \A q \in (p + 1)..Len(ls) : ls[q].kind \in {"hdr", "body"}

\* C2: for a single-file diff (a text-file segment, all lines terminated)
\* whose segment holds n >= 1 well-formed hunk headers, parsePatchFile
\* returns one record with exactly n hunks, the k-th hunk carrying the
\* numbers of the k-th header.
C2_OneHunkPerHeader ==
    (/\ Parsed
     /\ input.nl
     /\ Len(input.segs) = 1
     /\ HasPath(input.segs[1])
     /\ TextFileSegment(input.segs[1].lines))
    => LET hdrs == HdrLines(input.segs[1].lines)
       IN  /\ ~parsed.threw
           /\ Len(Records) = 1
           /\ Len(Records[1].hunks) = Len(hdrs)
           /\ \A k \in 1..Len(hdrs) : Numbers(Records[1].hunks[k]) = Interp(hdrs[k])

\* C5: for every input text parsePatchFile returns a list and does not
\* throw; the list holds one record for each segment whose first line
\* carries a path pair, in segment order, and none for the preamble or for
\* the other segments.
C5_NeverThrowsOneRecordPerSegment ==
    Parsed =>
        /\ ~parsed.threw
        /\ Len(Records) = RecIndex(Len(input.segs))
        /\ \A i \in 1..Len(input.segs) :
               HasPath(input.segs[i]) =>
                   EndsWith(Records[RecIndex(i)].filePath, input.segs[i].path.to)

\* C6: every record of fileType binary or directory has an empty hunks
\* list, and a segment whose header block holds a "Binary files ... differ"
\* line (all lines terminated) yields fileType binary with no hunks,
\* whatever "@@" lines the segment holds.
C6_BinaryOrDirectoryHasNoHunks ==
    (Parsed /\ ~parsed.threw) =>
        /\ \A k \in 1..Len(Records) :
               Records[k].fileType \in {"binary", "directory"} => Records[k].hunks = <<>>
        /\ \A i \in 1..Len(input.segs) :
               (input.nl /\ HasPath(input.segs[i]) /\ BinaryInHeaderBlock(input.segs[i].lines))
               => /\ Records[RecIndex(i)].fileType = "binary"
                  /\ Records[RecIndex(i)].hunks = <<>>

\* a binary record whose segment holds a hunk header after the marker
C6_Witness ==
    /\ Parsed
    /\ ~parsed.threw
    /\ Len(input.segs) = 1
    /\ \E p \in 1..Len(input.segs[1].lines) :
           /\ IsBinaryMarker(input.segs[1].lines[p])
           /\ \E q \in (p + 1)..Len(input.segs[1].lines) : IsHdr(input.segs[1].lines[q])
    /\ Len(Records) = 1
    /\ Records[1].fileType = "binary"
    /\ Records[1].hunks = <<>>

\* C7: every hunk that parsePatchFile returns satisfies the line
\* accounting (removed + context lines = oldLineCount, added + context
\* lines = newLineCount); a hunk that violates it is not returned.
C7_LineAccounting ==
    Parsed =>
        \A k \in 1..Len(Records) : \A n \in 1..Len(Records[k].hunks) :
            LET hunk == Records[k].hunks[n]
            IN  /\ TaggedLines(hunk.content, {"-", " "}) = hunk.oldLineCount
                /\ TaggedLines(hunk.content, {"+", " "}) = hunk.newLineCount

\* C8: no record returned by parsePatchFile has isNew and isDeleted both
\* true.
C8_NewAndDeletedExclusive ==
    Parsed => \A k \in 1..Len(Records) : ~(Records[k].isNew /\ Records[k].isDeleted)

IsBad(l) == l.kind = "bad"

\* every "@@" line of the segment is a hunk header
NoMalformed(ls) == \A p \in 1..Len(ls) : ~IsBad(ls[p])

\* C9: a hunk header that omits a count is parsed with that count equal to
\* 1, separately for the old and the new side, and a count that is written,
\* 0 included, is kept: the hunks of a record that went through hunk
\* parsing carry, in order, the numbers of the segment's headers.
C9_OmittedCountIsOne ==
    (Parsed /\ ~parsed.threw /\ input.nl) =>
        \A i \in 1..Len(input.segs) :
            (/\ HasPath(input.segs[i])
             /\ NoMalformed(input.segs[i].lines)
             /\ Records[RecIndex(i)].fileType = "file")
            => LET hdrs == HdrLines(input.segs[i].lines)
                   hunks == Records[RecIndex(i)].hunks
               IN  /\ Len(hunks) = Len(hdrs)
                   /\ \A k \in 1..Len(hdrs) : Numbers(hunks[k]) = Interp(hdrs[k])

\* a record with a hunk of "@@ -5 +5,2 @@" (old count omitted, new count
\* written) and a hunk of "@@ -10,0 +12 @@" (explicit 0, new count omitted)
C9_Witness ==
    /\ Parsed
    /\ ~parsed.threw
    /\ Len(input.segs) = 1
    /\ HdrLines(input.segs[1].lines) = <<Hd(5, FALSE, 0, 5, TRUE, 2), Hd(10, TRUE, 0, 12, FALSE, 0)>>
    /\ Len(Records) = 1
    /\ Len(Records[1].hunks) = 2
    /\ Numbers(Records[1].hunks[1]) =
           [oldStartLine |-> 5, oldLineCount |-> 1, newStartLine |-> 5, newLineCount |-> 2]
    /\ Numbers(Records[1].hunks[2]) =
           [oldStartLine |-> 10, oldLineCount |-> 0, newStartLine |-> 12, newLineCount |-> 1]

(***************************************************************************)
(* Arguments of applyPatchToContent.  The original is given by its lines   *)
(* (the text between line terminators, so a text that ends with one has an *)
(* empty last line), a hunk by its old range and its tagged body lines.    *)
(***************************************************************************)
MaxOrigLines == 2

MaxCount == 2

MaxApplyBody == 2

MaxApplyHunks == 2

BL(tag, text) == [tag |-> tag, text |-> text]

HS(oldStart, oldCount, body) == [oldStart |-> oldStart, oldCount |-> oldCount, body |-> body]

RECURSIVE TextOfLines(_)
TextOfLines(ls) ==
    IF Len(ls) = 0 THEN <<>>
    ELSE IF Len(ls) = 1 THEN ls[1]
    ELSE ls[1] \o <<NL>> \o TextOfLines(Tail(ls))

BodyText(b) == TextOfLines([k \in 1..Len(b) |-> <<b[k].tag>> \o b[k].text])

IsOldSide(l) == l.tag \in {" ", "-"}

IsNewSide(l) == l.tag \in {" ", "+"}

TextsOf(b) == [k \in 1..Len(b) |-> b[k].text]

\* the texts a hunk body leaves in the file: added and context lines
Replacement(b) == TextsOf(SelectSeq(b, IsNewSide))

\* the texts a hunk body expects in the original: removed and context lines
OldSide(b) == TextsOf(SelectSeq(b, IsOldSide))

ChangeOf(c) ==
    [filePath |-> <<"f">>, fileType |-> c.fileType, isNew |-> c.isNew,
     isDeleted |-> c.isDeleted,
     hunks |-> [k \in 1..Len(c.hunks) |->
                   [oldStartLine |-> c.hunks[k].oldStart,
                    oldLineCount |-> c.hunks[k].oldCount,
                    newStartLine |-> c.hunks[k].oldStart,
                    newLineCount |-> Len(Replacement(c.hunks[k].body)),
                    content |-> BodyText(c.hunks[k].body)]]]

FileCall(origLines, hunks) ==
    [origLines |-> origLines, fileType |-> "file", isNew |-> FALSE, isDeleted |-> FALSE,
     hunks |-> hunks]

OrigLineSeqs ==
    {base \o tail : base \in SeqsUpTo({<<"a">>, <<"b">>}, MaxOrigLines) \ {<<>>},
                    tail \in {<<>>, <<<<>>>>}}

ApplyBodyLines ==
    {BL(" ", <<"a">>), BL("-", <<"a">>), BL("-", <<"b">>), BL("+", <<"c">>),
     BL("\\", <<" ", "N", "o", " ", "n", "e", "w", "l", "i", "n", "e">>)}

\* one hunk: any start, count and body within the bounds
SingleHunkCalls ==
    {FileCall(o, <<HS(st, cnt, b)>>) :
        o \in OrigLineSeqs, st \in 0..(MaxOrigLines + 2), cnt \in 0..MaxCount,
        b \in SeqsUpTo(ApplyBodyLines, MaxApplyBody)}

\* two to MaxApplyHunks hunks in any order, each with a count that agrees
\* with its body
SmallBodies ==
    {<<BL("+", <<"c">>)>>, <<BL("-", <<"a">>)>>, <<BL(" ", <<"b">>)>>,
     <<BL("-", <<"b">>), BL("+", <<"c">>)>>}

SmallHunks == {HS(st, Len(OldSide(b)), b) : st \in 1..(MaxOrigLines + 1), b \in SmallBodies}

MultiHunkCalls ==
    {FileCall(o, hs) :
        o \in [1..MaxOrigLines -> {<<"a">>, <<"b">>}],
        hs \in SeqsUpTo(SmallHunks, MaxApplyHunks) \ SeqsUpTo(SmallHunks, 1)}

\* records the caller is told not to hand to the applier
UnsupportedCalls ==
    [origLines : {<<<<"a">>, <<>>>>}, fileType : {"file", "directory", "binary"},
     isNew : {FALSE}, isDeleted : BOOLEAN,
     hunks : {<<>>, <<HS(1, 1, <<BL("-", <<"a">>), BL("+", <<"c">>)>>)>>}]

\* original "a\nb\ne\n" with the hunk -1,3 +1,4 [ a, -b, +c, +d,  e]
ExampleCall ==
    FileCall(<<<<"a">>, <<"b">>, <<"e">>, <<>>>>,
             <<HS(1, 3, <<BL(" ", <<"a">>), BL("-", <<"b">>), BL("+", <<"c">>),
                          BL("+", <<"d">>), BL(" ", <<"e">>)>>)>>)

\* a new file: the original is "", the hunk -0,0 or -1,0 adds every line
AddedLines == {BL("+", <<"c">>), BL("+", <<"d">>), BL("+", <<>>)}

NewFileCalls ==
    {[origLines |-> <<<<>>>>, fileType |-> "file", isNew |-> TRUE, isDeleted |-> FALSE,
      hunks |-> <<HS(st, 0, b)>>] :
        st \in {0, 1}, b \in SeqsUpTo(AddedLines, MaxApplyBody) \ {<<>>}}

ApplyInputs ==
    SingleHunkCalls \cup MultiHunkCalls \cup UnsupportedCalls \cup NewFileCalls
        \cup {ExampleCall}

InitApply ==
    /\ pc = "start"
    /\ call \in ApplyInputs
    /\ originalContent = TextOfLines(call.origLines)
    /\ change = ChangeOf(call)
    /\ applied = NotApplied
    /\ input = NoInput
    /\ patchContent = <<>>
    /\ parsed = NotCalled
    /\ NoTasks
    /\ NoHandler

\* const newContent = applyPatchToContent(originalContent, change);
ApplyPatchToContent ==
    /\ pc = "start"
    /\ applied' = applyPatchToContent(originalContent, change)
    /\ change' = changeAfterCall(change)
    /\ pc' = "applied"
    /\ UNCHANGED <<call, originalContent>>
    /\ UNCHANGED parseVars
    /\ UNCHANGED taskVars
    /\ UNCHANGED handlerVars

NextApply == ApplyPatchToContent

SpecApply == InitApply /\ [][NextApply]_vars

(***************************************************************************)
(* What the structure of the arguments says about the result.              *)
(***************************************************************************)
Applied == pc = "applied"

InRange(h, lines) == h.oldStart >= 1 /\ h.oldStart - 1 + h.oldCount <= Len(lines)

\* the hunk has a body, lies in the original and its removed and context
\* lines are the original's lines oldStart .. oldStart + oldCount - 1
ValidHunk(h, lines) ==
    /\ Len(h.body) >= 1
    /\ InRange(h, lines)
    /\ OldSide(h.body) = SubSeq(lines, h.oldStart, h.oldStart + h.oldCount - 1)

Before(h, g) == h.oldStart < g.oldStart /\ h.oldStart + h.oldCount <= g.oldStart

NonOverlapping(hs) ==
    \A i, j \in 1..Len(hs) : i /= j => (Before(hs[i], hs[j]) \/ Before(hs[j], hs[i]))

DistinctStarts(hs) ==
    \A i, j \in 1..Len(hs) : i /= j => hs[i].oldStart /= hs[j].oldStart

\* the original read from line p on, each hunk's region replaced by the
\* hunk's added and context lines, every oldStart taken against the original
RECURSIVE Patched(_, _, _)
Patched(lines, hs, p) ==
    LET at == {k \in 1..Len(hs) : hs[k].oldStart = p}
        here == IF p <= Len(lines) THEN <<lines[p]>> ELSE <<>>
    IN  IF p > Len(lines) + 1 THEN <<>>
        ELSE IF at = {} THEN here \o Patched(lines, hs, p + 1)
        ELSE LET h == hs[CHOOSE k \in at : TRUE]
             IN  IF h.oldCount = 0
                 THEN Replacement(h.body) \o here \o Patched(lines, hs, p + 1)
                 ELSE Replacement(h.body) \o Patched(lines, hs, p + h.oldCount)

HunkOrders(n) == {f \in [1..n -> 1..n] : \A i, j \in 1..n : f[i] = f[j] => i = j}

Permuted(ch, f) == [ch EXCEPT !.hunks = [k \in 1..Len(ch.hunks) |-> ch.hunks[f[k]]]]

(***************************************************************************)
(* Claims about applyPatchToContent, checked under SpecApply.              *)
(***************************************************************************)

\* C1: for a record of fileType file whose hunks are in range, pairwise
\* non-overlapping and valid, applyPatchToContent returns the original with
\* each hunk's region replaced by the hunk's added and context texts in
\* body order, every other line unchanged and in place.
C1_ValidHunksReplaceTheirRegions ==
    (/\ Applied
     /\ call.fileType = "file"
     /\ \A k \in 1..Len(call.hunks) : ValidHunk(call.hunks[k], call.origLines)
     /\ NonOverlapping(call.hunks))
    => /\ ~applied.threw
       /\ applied.content = TextOfLines(Patched(call.origLines, call.hunks, 1))

\* original "a\nb\ne\n" and the hunk -1,3 +1,4 [ a, -b, +c, +d,  e] have
\* given "a\nc\nd\ne\n"
C1_Witness ==
    /\ Applied
    /\ call = ExampleCall
    /\ ValidHunk(call.hunks[1], call.origLines)
    /\ applied.content = <<"a", NL, "c", NL, "d", NL, "e", NL>>

\* C3: for two or more hunks of distinct oldStartLine the output is the
\* same for every permutation of change.hunks, and for in-range
\* non-overlapping hunks it is the output obtained with every oldStartLine
\* taken against the unmodified original.
C3_HunkOrderIrrelevant ==
    (Applied /\ Len(call.hunks) >= 2 /\ DistinctStarts(call.hunks))
    => /\ \A f \in HunkOrders(Len(call.hunks)) :
              applyPatchToContent(originalContent, Permuted(change, f)) = applied
       /\ ((NonOverlapping(call.hunks)
              /\ \A k \in 1..Len(call.hunks) : InRange(call.hunks[k], call.origLines))
           => applied.content = TextOfLines(Patched(call.origLines, call.hunks, 1)))

\* change.hunks lists the upper hunk first, that hunk changes the number of
\* lines, and the lower hunk has still been applied at its original place
C3_Witness ==
    /\ Applied
    /\ Len(call.hunks) = 2
    /\ Before(call.hunks[1], call.hunks[2])
    /\ InRange(call.hunks[2], call.origLines)
    /\ Len(Replacement(call.hunks[1].body)) /= call.hunks[1].oldCount
    /\ call.hunks[2].oldCount >= 1
    /\ applied.content = TextOfLines(Patched(call.origLines, call.hunks, 1))

\* C4: for exactly one valid hunk whose body holds only context lines,
\* applyPatchToContent(original, change) = original.
C4_ContextOnlyHunkIsIdentity ==
    (/\ Applied
     /\ Len(call.hunks) = 1
     /\ ValidHunk(call.hunks[1], call.origLines)
     /\ \A k \in 1..Len(call.hunks[1].body) : call.hunks[1].body[k].tag = " ")
    => /\ ~applied.threw
       /\ applied.content = originalContent

C4_Witness ==
    /\ Applied
    /\ Len(call.hunks) = 1
    /\ ValidHunk(call.hunks[1], call.origLines)
    /\ call.hunks[1].oldCount >= 1
    /\ \A k \in 1..Len(call.hunks[1].body) : call.hunks[1].body[k].tag = " "
    /\ applied.content = originalContent

\* C10: called with a record of fileType directory or binary, or with
\* isDeleted and no hunks, applyPatchToContent fails and returns no content.
C10_RejectsUnsupportedRecords ==
    (/\ Applied
     /\ \/ call.fileType \in {"directory", "binary"}
        \/ (call.isDeleted /\ call.hunks = <<>>))
    => applied.threw

\* C11: applyPatchToContent leaves its FileChange argument as it was:
\* change.hunks keeps its length, its order and every field value, and the
\* other fields of the record are untouched.
C11_ArgumentUnchanged == Applied => change = ChangeOf(call)

\* a call whose hunks are listed in ascending order, which the sort reverses
C11_Witness ==
    /\ Applied
    /\ Len(call.hunks) = 2
    /\ call.hunks[1].oldStart < call.hunks[2].oldStart
    /\ sortedHunks(change.hunks) /= change.hunks
    /\ change = ChangeOf(call)

RECURSIVE EachTerminated(_)
EachTerminated(texts) ==
    IF Len(texts) = 0 THEN <<>> ELSE Head(texts) \o <<NL>> \o EachTerminated(Tail(texts))

IsNewFileCall(c) ==
    /\ c.isNew
    /\ c.fileType = "file"
    /\ c.origLines = <<<<>>>>
    /\ Len(c.hunks) = 1
    /\ c.hunks[1].oldStart \in {0, 1}
    /\ c.hunks[1].oldCount = 0
    /\ Len(c.hunks[1].body) >= 1
    /\ \A k \in 1..Len(c.hunks[1].body) : c.hunks[1].body[k].tag = "+"

\* C12: for a record with isNew, one hunk with oldStartLine 0 or 1,
\* oldLineCount 0 and a body of n >= 1 added lines, applied to "", the
\* result is the n added texts in body order, each followed by the line
\* terminator, and nothing else.
C12_NewFileContent ==
    (Applied /\ IsNewFileCall(call))
    => /\ ~applied.threw
       /\ applied.content = EachTerminated(TextsOf(call.hunks[1].body))

\* the hunk -0,0 with two added lines has given the two lines
C12_Witness ==
    /\ Applied
    /\ IsNewFileCall(call)
    /\ originalContent = <<>>
    /\ call.hunks[1].oldStart = 0
    /\ Len(call.hunks[1].body) = 2
    /\ applied.content = EachTerminated(TextsOf(call.hunks[1].body))

IsMarker(l) == l.tag = "\\"

IsNotMarker(l) == ~IsMarker(l)

WithoutMarkers(c) ==
    [c EXCEPT !.hunks = [k \in 1..Len(c.hunks) |->
                            [c.hunks[k] EXCEPT !.body = SelectSeq(@, IsNotMarker)]]]

\* C20: a no-newline marker line (first character a backslash) carries no
\* content: it adds no line to the output, and the output of a hunk is the
\* output of the same hunk without its marker lines.
C20_MarkerCarriesNoContent ==
    (/\ Applied
     /\ call.fileType = "file"
     /\ \A k \in 1..Len(call.hunks) : \E n \in 1..Len(call.hunks[k].body) :
            ~IsMarker(call.hunks[k].body[n]))
    => /\ applyPatchToContent(originalContent, ChangeOf(WithoutMarkers(call))).content
              = applied.content
       /\ \A k \in 1..Len(call.hunks) :
              linesToInsert(split(change.hunks[k].content, <<NL>>))
                  = Replacement(call.hunks[k].body)

\* a hunk with an added line followed by a marker line has been applied
C20_Witness ==
    /\ Applied
    /\ Len(call.hunks) = 1
    /\ Len(call.hunks[1].body) = 2
    /\ call.hunks[1].body[1].tag = "+"
    /\ IsMarker(call.hunks[1].body[2])
    /\ InRange(call.hunks[1], call.origLines)
    /\ applied.content = TextOfLines(Patched(call.origLines, call.hunks, 1))

(***************************************************************************)
(* Further claims about parsePatchFile, checked under SpecParse.           *)
(***************************************************************************)
HdrPositions(ls) == {p \in 1..Len(ls) : IsHdr(ls[p])}

\* position of the k-th hunk header of the segment
NthHdr(ls, k) ==
    CHOOSE p \in HdrPositions(ls) : Cardinality({q \in HdrPositions(ls) : q <= p}) = k

\* the lines after the k-th hunk header, up to the next hunk header or the
\* end of the segment
BodyOfHdr(ls, k) ==
    LET p == NthHdr(ls, k)
        later == {q \in HdrPositions(ls) : q > p}
        last == IF later = {} THEN Len(ls) ELSE (CHOOSE q \in later : \A r \in later : q <= r) - 1
    IN  SubSeq(ls, p + 1, last)

\* the raw text of lines, a line terminator between two lines
RECURSIVE RawLines(_)
RawLines(ls) ==
    IF Len(ls) = 0 THEN <<>>
    ELSE IF Len(ls) = 1 THEN LineText(ls[1])
    ELSE LineText(Head(ls)) \o <<NL>> \o RawLines(Tail(ls))

\* the hunks of the record are the segment's hunk headers with their bodies
HunksAreHeadersWithBodies(hunks, ls) ==
    /\ Len(hunks) = Cardinality(HdrPositions(ls))
    /\ \A k \in 1..Cardinality(HdrPositions(ls)) :
           /\ k <= Len(hunks)
           /\ Numbers(hunks[k]) = Interp(ls[NthHdr(ls, k)])
           /\ hunks[k].content = RawLines(BodyOfHdr(ls, k))

\* C15: a line that begins with "@@" and is no hunk header is not a hunk
\* boundary: it is body text of the open hunk, which is emitted once, so a
\* record has one hunk per well-formed header of its segment (all lines
\* terminated), each with the lines up to the next well-formed header.
C15_MalformedHeaderIsBodyText ==
    (Parsed /\ ~parsed.threw /\ input.nl) =>
        \A i \in 1..Len(input.segs) :
            (HasPath(input.segs[i]) /\ Records[RecIndex(i)].fileType = "file")
            => HunksAreHeadersWithBodies(Records[RecIndex(i)].hunks, input.segs[i].lines)

\* C16: for every input text, with or without a final line terminator, the
\* body of each parsed hunk is the raw lines that follow its header up to
\* the next hunk header or the end of the segment (segments whose "@@"
\* lines are all hunk headers).
C16_BodyIsTheRawLines ==
    (Parsed /\ ~parsed.threw) =>
        \A i \in 1..Len(input.segs) :
            (/\ HasPath(input.segs[i])
             /\ NoMalformed(input.segs[i].lines)
             /\ Records[RecIndex(i)].fileType = "file")
            => HunksAreHeadersWithBodies(Records[RecIndex(i)].hunks, input.segs[i].lines)

\* the lines of the segment before its first hunk header
HeaderBlock(ls) ==
    IF HdrPositions(ls) = {} THEN ls ELSE SubSeq(ls, 1, NthHdr(ls, 1) - 1)

HeaderBlocksOnly(in) ==
    [in EXCEPT !.segs = [i \in 1..Len(in.segs) |->
                            [in.segs[i] EXCEPT !.lines = HeaderBlock(@)]]]

Classification(rec) ==
    [isNew |-> rec.isNew, isDeleted |-> rec.isDeleted, fileType |-> rec.fileType]

\* C17: classification tokens are read only from the header block: the
\* isNew, isDeleted and fileType of every record are those of the same
\* input with the lines from each segment's first hunk header on left out.
C17_ClassifiedByHeaderBlock ==
    (Parsed /\ ~parsed.threw /\ input.nl) =>
        LET headerOnly == parsePatchFile(DiffText(HeaderBlocksOnly(input)))
        IN  /\ ~headerOnly.threw
            /\ Len(headerOnly.fileChanges) = Len(Records)
            /\ \A k \in 1..Len(Records) :
                   k <= Len(headerOnly.fileChanges)
                   => Classification(Records[k]) = Classification(headerOnly.fileChanges[k])

\* C18: for a header line "a/<p> b/<q>" the record's filePath is q, for
\* every pair p, q, renames and paths containing " b/" included.
C18_FilePathIsToSide ==
    (Parsed /\ ~parsed.threw) =>
        \A i \in 1..Len(input.segs) :
            input.segs[i].path.form = "ab"
            => Records[RecIndex(i)].filePath = input.segs[i].path.to

IsOldModeLine(l) == l.kind = "meta" /\ l.text = txtOldMode644

IsDirModeLine(l) == l.kind = "meta" /\ l.text \in {txtNewMode040, txtNewMode160}

\* the header block holds, among the lines the scan reads and before any
\* other marker that ends the scan, an "old mode" line followed by a
\* "new mode" line of mode 040000 or 160000
ModePairInHeaderBlock(ls) ==
    \E p \in 1..(Len(HeaderBlock(ls)) - 1) :
        /\ p + 1 <= HeaderScanLimit - 1
        /\ IsOldModeLine(ls[p])
        /\ IsDirModeLine(ls[p + 1])
        /\ \A q \in 1..(p - 1) : ~IsBinaryMarker(ls[q]) /\ ~IsDirectoryMarker(ls[q])

\* C19: a segment whose header block carries the pair of an "old mode"
\* line and a "new mode" line with mode 040000 or 160000 yields a record
\* of fileType directory with empty hunks.
C19_ModePairIsDirectory ==
    (Parsed /\ ~parsed.threw /\ input.nl) =>
        \A i \in 1..Len(input.segs) :
            (HasPath(input.segs[i]) /\ ModePairInHeaderBlock(input.segs[i].lines))
            => /\ Records[RecIndex(i)].fileType = "directory"
               /\ Records[RecIndex(i)].hunks = <<>>

\* one hunk with a tagged body whose region reaches past the original's end
IsOutOfRangeCall(c) ==
    /\ c.fileType = "file"
    /\ Len(c.hunks) = 1
    /\ Len(c.hunks[1].body) >= 1
    /\ c.hunks[1].oldStart >= 1
    /\ c.hunks[1].oldStart - 1 + c.hunks[1].oldCount > Len(c.origLines)

\* C21: an offset out of range is a truncated splice, never an error: for
\* an original of L lines and a hunk with oldStartLine - 1 + oldLineCount
\* > L (oldStartLine >= 1), the call returns, the lines before position
\* min(oldStartLine - 1, L) are kept, every line from that position to the
\* end is removed and the hunk's replacement lines are put there.
C21_OutOfRangeIsTruncatedSplice ==
    (Applied /\ IsOutOfRangeCall(call))
    => LET position == Min(call.hunks[1].oldStart - 1, Len(call.origLines))
       IN  /\ ~applied.threw
           /\ applied.content
                  = TextOfLines(SubSeq(call.origLines, 1, position)
                                    \o Replacement(call.hunks[1].body))

\* a hunk -2,2 on an original of two lines: line 1 is kept, line 2 is
\* removed, the replacement follows
C21_Witness ==
    /\ Applied
    /\ IsOutOfRangeCall(call)
    /\ Len(call.origLines) = 2
    /\ call.hunks[1].oldStart = 2
    /\ call.hunks[1].oldCount = 2
    /\ Len(Replacement(call.hunks[1].body)) = 1
    /\ applied.content
           = TextOfLines(<<call.origLines[1]>> \o Replacement(call.hunks[1].body))

\* the lines of the original, without the empty one after a final terminator
NumberOfLines(origLines) ==
    IF Len(origLines) > 0 /\ origLines[Len(origLines)] = <<>>
    THEN Len(origLines) - 1
    ELSE Len(origLines)

IsPureInsertionCall(c) ==
    /\ c.fileType = "file"
    /\ Len(c.hunks) = 1
    /\ c.hunks[1].oldCount = 0
    /\ c.hunks[1].oldStart >= 1
    /\ c.hunks[1].oldStart <= NumberOfLines(c.origLines)
    /\ Len(c.hunks[1].body) >= 1
    /\ \A n \in 1..Len(c.hunks[1].body) : c.hunks[1].body[n].tag = "+"

\* C23: a pure-insertion hunk (oldLineCount 0, oldStartLine k >= 1, only
\* added lines) applied to an original of at least k lines gives the
\* original's lines 1..k, then the added lines in body order, then the
\* rest of the original: the lines are placed after line k.
C23_InsertionAfterLineK ==
    (Applied /\ IsPureInsertionCall(call))
    => LET k == call.hunks[1].oldStart
       IN  applied.content
               = TextOfLines(SubSeq(call.origLines, 1, k)
                                 \o TextsOf(call.hunks[1].body)
                                 \o SubSeq(call.origLines, k + 1, Len(call.origLines)))

\* the header names one path P on both sides, in either form
SamePathOnBothSides(seg) ==
    /\ HasPath(seg)
    /\ seg.path.from = seg.path.to
    /\ \A n \in 1..Len(seg.path.to) : ~occursAt(seg.path.to, litSpaceBSlash, n)

\* C30: both header forms give the same record path for the same file: a
\* segment with header a/P b/P and a segment with header "a/P" "b/P" yield
\* records of equal filePath, which is P without the side prefix.
C30_BothFormsGiveThePath ==
    (Parsed /\ ~parsed.threw) =>
        \A i \in 1..Len(input.segs) :
            SamePathOnBothSides(input.segs[i])
            => /\ Records[RecIndex(i)].filePath = input.segs[i].path.to
               /\ \A j \in 1..Len(input.segs) :
                      (/\ SamePathOnBothSides(input.segs[j])
                       /\ input.segs[j].path.to = input.segs[i].path.to)
                      => Records[RecIndex(j)].filePath = Records[RecIndex(i)].filePath

(***************************************************************************)
(* Parsing, then applying.                                                 *)
(***************************************************************************)
\* the lines after the k-th hunk header start with the lines the header
\* declares: tagged lines with oldLineCount removed or context lines and
\* newLineCount added or context lines
HasDeclaredLines(ls, k) ==
    LET body == BodyOfHdr(ls, k)
        counts == Interp(ls[NthHdr(ls, k)])
    IN  \E n \in 0..Len(body) :
            /\ \A q \in 1..n : body[q].kind = "body"
            /\ Cardinality({q \in 1..n : body[q].text[1] \in {" ", "-"}}) = counts.oldLineCount
            /\ Cardinality({q \in 1..n : body[q].text[1] \in {" ", "+"}}) = counts.newLineCount

\* a segment of a text file whose hunks all carry their declared lines
WellFormedHunks(ls) ==
    /\ HdrPositions(ls) /= {}
    /\ NoMalformed(ls)
    /\ \A q \in 1..(NthHdr(ls, 1) - 1) :
           ls[q].kind = "meta" /\ ~IsBinaryMarker(ls[q]) /\ ~IsDirectoryMarker(ls[q])
    /\ \A k \in 1..Cardinality(HdrPositions(ls)) : HasDeclaredLines(ls, k)

RECURSIVE SumOldCounts(_)
SumOldCounts(hunks) ==
    IF Len(hunks) = 0 THEN 0 ELSE Head(hunks).oldLineCount + SumOldCounts(Tail(hunks))

RECURSIVE SumNewCounts(_)
SumNewCounts(hunks) ==
    IF Len(hunks) = 0 THEN 0 ELSE Head(hunks).newLineCount + SumNewCounts(Tail(hunks))

\* originals the parsed records are applied to
SmallOriginals == {<<"a", "\n">>, <<"a", "\n", "b", "\n">>}

AllHunksInRange(hunks, lines) ==
    \A n \in 1..Len(hunks) :
        /\ hunks[n].oldStartLine >= 1
        /\ hunks[n].oldStartLine - 1 + hunks[n].oldLineCount <= Len(lines)

\* C24: line accounting of parse-then-apply: for a diff text whose hunks
\* carry their declared lines, and an original the parsed hunks are in
\* range of, applyPatchToContent gives (lines of the original) - sum of
\* oldLineCount + sum of newLineCount lines; text after a hunk's declared
\* lines adds no line.
C24_ParseThenApplyLineCount ==
    (Parsed /\ ~parsed.threw /\ input.nl) =>
        \A i \in 1..Len(input.segs) :
            (/\ HasPath(input.segs[i])
             /\ WellFormedHunks(input.segs[i].lines)
             /\ Records[RecIndex(i)].fileType = "file")
            => \A orig \in SmallOriginals :
                   LET rec == Records[RecIndex(i)]
                       before == split(orig, <<NL>>)
                       after == split(applyPatchToContent(orig, rec).content, <<NL>>)
                   IN  AllHunksInRange(rec.hunks, before)
                       => Len(after) = Len(before) - SumOldCounts(rec.hunks)
                                           + SumNewCounts(rec.hunks)

(***************************************************************************)
(* Two calls of applyPatchToContent for two files, run by two workers      *)
(* whose steps interleave: split, sort, one splice per hunk, join.         *)
(***************************************************************************)
ParallelHunks ==
    {HS(1, 1, <<BL("-", <<"a">>), BL("+", <<"c">>)>>), HS(2, 0, <<BL("+", <<"c">>)>>),
     HS(2, 1, <<BL("-", <<"b">>)>>)}

ParallelCalls ==
    {FileCall(o, hs) :
        o \in {<<<<"a">>, <<"b">>>>, <<<<"a">>, <<"a">>, <<>>>>},
        hs \in SeqsUpTo(ParallelHunks, MaxApplyHunks)}

TaskOf(c) ==
    [pc |-> "split", call |-> c, originalContent |-> TextOfLines(c.origLines),
     change |-> ChangeOf(c), sortedHunks |-> <<>>, result |-> <<>>]

InitParallel ==
    /\ pc = "start"
    /\ input = NoInput
    /\ patchContent = <<>>
    /\ parsed = NotCalled
    /\ call = NoCall
    /\ originalContent = <<>>
    /\ change = NoRecord
    /\ applied = NotApplied
    /\ tasks \in [Workers -> {TaskOf(c) : c \in ParallelCalls}]
    /\ linesBuf = [w \in Workers |-> <<>>]
    /\ NoHandler

\* let lines = originalContent.split('\n');
SplitLines(w) ==
    /\ tasks[w].pc = "split"
    /\ linesBuf' = [linesBuf EXCEPT ![bufferOf(w)] = split(tasks[w].originalContent, <<NL>>)]
    /\ tasks' = [tasks EXCEPT ![w].pc = "sort"]

\* const sortedHunks = [...change.hunks].sort(...);
SortHunks(w) ==
    /\ tasks[w].pc = "sort"
    /\ tasks' = [tasks EXCEPT ![w].sortedHunks = sortedHunks(tasks[w].change.hunks),
                              ![w].pc = "loop"]
    /\ UNCHANGED linesBuf

\* one iteration of "for (const hunk of sortedHunks)"
SpliceHunk(w) ==
    /\ tasks[w].pc = "loop"
    /\ Len(tasks[w].sortedHunks) > 0
    /\ linesBuf' = [linesBuf EXCEPT ![bufferOf(w)] = applyHunk(@, Head(tasks[w].sortedHunks))]
    /\ tasks' = [tasks EXCEPT ![w].sortedHunks = Tail(@)]

\* return lines.join('\n');
JoinLines(w) ==
    /\ tasks[w].pc = "loop"
    /\ Len(tasks[w].sortedHunks) = 0
    /\ tasks' = [tasks EXCEPT ![w].result = join(linesBuf[bufferOf(w)], <<NL>>),
                              ![w].pc = "done"]
    /\ UNCHANGED linesBuf

NextParallel ==
    \E w \in Workers :
        /\ SplitLines(w) \/ SortHunks(w) \/ SpliceHunk(w) \/ JoinLines(w)
        /\ UNCHANGED <<pc, parseVars, applyVars>>
        /\ UNCHANGED handlerVars

SpecParallel == InitParallel /\ [][NextParallel]_vars

\* C14: applyPatchToContent keeps no state between calls: under every
\* interleaving of the steps of two calls for two files, the result of each
\* call is the result of that call run alone.
C14_CallsDoNotInterfere ==
    \A w \in Workers :
        tasks[w].pc = "done"
        => tasks[w].result
               = applyPatchToContent(tasks[w].originalContent, tasks[w].change).content

\* worker 1 has returned its result while worker 2 is in the middle of its
\* loop: one of its two hunks is spliced in, the other is still to come
C14_Witness ==
    /\ tasks[1].pc = "done"
    /\ Len(tasks[1].call.hunks) = 2
    /\ tasks[1].result /= tasks[1].originalContent
    /\ tasks[1].result
           = applyPatchToContent(tasks[1].originalContent, tasks[1].change).content
    /\ tasks[2].pc = "loop"
    /\ Len(tasks[2].call.hunks) = 2
    /\ Len(tasks[2].sortedHunks) = 1
    /\ tasks[2].call /= tasks[1].call

(***************************************************************************)
(* The git-patch.applyPatch handler: steps 3 to 7 and the live preview.    *)
(* A target path is the record's filePath; the workspace holds the files   *)
(* of Files, and writes and deletions of the paths in unwritable fail.     *)
(***************************************************************************)
MaxChanges == 2

txtDelA == <<"-", "a">>

fileA == <<"a", "\n">>

HandlerTails ==
    {<<Hd(1, TRUE, 1, 1, TRUE, 1), Ln("body", txtDelA), Ln("body", txtAddC)>>,
     <<Ln("meta", txtNewFile), Hd(0, TRUE, 0, 1, TRUE, 1), Ln("body", txtAddC)>>,
     <<Ln("meta", txtDeletedFile), Hd(1, TRUE, 1, 0, TRUE, 0), Ln("body", txtDelA)>>,
     <<Ln("meta", txtBinary)>>,
     <<Ln("meta", txtDirMode)>>}

HandlerSegs ==
    [path : {[form |-> "ab", from |-> p, to |-> p] : p \in Files}, lines : HandlerTails]

HandlerInputs ==
    {[pre |-> <<>>, segs |-> s, nl |-> TRUE] : s \in SeqsUpTo(HandlerSegs, MaxChanges)}

InitHandler ==
    /\ pc = "start"
    /\ input \in HandlerInputs
    /\ patchContent = DiffText(input)
    /\ parsed = NotCalled
    /\ call = NoCall
    /\ originalContent = <<>>
    /\ change = NoRecord
    /\ applied = NotApplied
    /\ NoTasks
    /\ hpc = "start"
    /\ answer = "none"
    /\ fs \in [Files -> {Absent, FileWith(fileA)}]
    /\ unwritable \in {{}, {<<"f">>}}
    /\ fsBefore = fs
    /\ tempFiles = {}
    /\ supportedChanges = <<>>
    /\ deletedFiles = <<>>
    /\ applierCalls = <<>>
    /\ panel = "none"
    /\ isApplying = FALSE
    /\ changesApplied = FALSE
    /\ backups = [p \in {} |-> <<>>]
    /\ preview = NoPreview
    /\ promise = "none"
    /\ successCount = 0
    /\ errorCount = 0
    /\ report = "none"
    /\ attempts = {}

\* fs.existsSync(p)
existsSync(files, p) == p \in DOMAIN files /\ files[p].exists

\* fs.writeFileSync(p, content): throws on a path that cannot be written
writeFileSync(files, p, content) ==
    IF p \in unwritable \/ p \notin DOMAIN files
    THEN [threw |-> TRUE, fs |-> files]
    ELSE [threw |-> FALSE, fs |-> [files EXCEPT ![p] = FileWith(content)]]

\* fs.unlinkSync(p): throws when the file does not exist or cannot be removed
unlinkSync(files, p) ==
    IF p \in unwritable \/ ~existsSync(files, p)
    THEN [threw |-> TRUE, fs |-> files]
    ELSE [threw |-> FALSE, fs |-> [files EXCEPT ![p] = Absent]]

NothingPrepared ==
    [supportedChanges |-> <<>>, deletedFiles |-> <<>>, tempFiles |-> {}, applierCalls |-> <<>>]

\* variant: no branch for isDeleted, every record of fileType file is
\* handed to the applier
RECURSIVE prepareChanges_NoDeletionList(_, _, _)
prepareChanges_NoDeletionList(fileChanges, k, st) ==
    IF k > Len(fileChanges) THEN st
    ELSE LET chg == fileChanges[k]
             targetFilePath == chg.filePath
             targetFileExists == existsSync(fs, targetFilePath)
             newContent ==
                 applyPatchToContent(IF targetFileExists THEN fs[targetFilePath].content
                                     ELSE <<>>, chg).content
         IN  IF chg.fileType = "directory" \/ chg.fileType = "binary"
             THEN prepareChanges_NoDeletionList(fileChanges, k + 1, st)
             ELSE prepareChanges_NoDeletionList(fileChanges, k + 1,
                      [st EXCEPT !.supportedChanges =
                                     Append(@, [change |-> chg,
                                                targetFilePath |-> targetFilePath,
                                                newContent |-> newContent]),
                                 !.tempFiles = @ \cup {targetFilePath},
                                 !.applierCalls = Append(@, chg)])

\* step 4: "for (const change of fileChanges)"
RECURSIVE prepareChanges(_, _, _)
prepareChanges(fileChanges, k, st) ==
    IF k > Len(fileChanges) THEN st
    ELSE LET chg == fileChanges[k]
             targetFilePath == chg.filePath
             targetFileExists == existsSync(fs, targetFilePath)
             newContent ==
                 applyPatchToContent(IF targetFileExists THEN fs[targetFilePath].content
                                     ELSE <<>>, chg).content
         IN  IF chg.fileType = "directory" \/ chg.fileType = "binary"
             THEN prepareChanges(fileChanges, k + 1, st)
             ELSE IF chg.isDeleted
             THEN prepareChanges(fileChanges, k + 1,
                      IF targetFileExists
                      THEN [st EXCEPT !.deletedFiles =
                               Append(@, [change |-> chg, targetFilePath |-> targetFilePath])]
                      ELSE st)
             ELSE prepareChanges(fileChanges, k + 1,
                      [st EXCEPT !.supportedChanges =
                                     Append(@, [change |-> chg,
                                                targetFilePath |-> targetFilePath,
                                                newContent |-> newContent]),
                                 !.tempFiles = @ \cup {targetFilePath},
                                 !.applierCalls = Append(@, chg)])

\* steps 2 to 5, up to the confirmation prompt
PrepareChanges ==
    /\ hpc = "start"
    /\ \E res \in {parsePatchFile(patchContent)} :
       \E st \in {prepareChanges(res.fileChanges, 1, NothingPrepared)} :
           /\ parsed' = res
           /\ IF res.threw
              THEN /\ hpc' = "done"
                   /\ report' = "error"
                   /\ UNCHANGED <<supportedChanges, deletedFiles, tempFiles, applierCalls>>
              ELSE /\ supportedChanges' = st.supportedChanges
                   /\ deletedFiles' = st.deletedFiles
                   /\ tempFiles' = st.tempFiles
                   /\ applierCalls' = st.applierCalls
                   /\ IF Len(st.supportedChanges) + Len(st.deletedFiles) = 0
                      THEN hpc' = "done" /\ report' = "nothing"
                      ELSE hpc' = "prompt" /\ report' = report
    /\ UNCHANGED <<pc, input, patchContent, applyVars, taskVars>>
    /\ UNCHANGED <<answer, fs, unwritable, fsBefore, panel, isApplying, changesApplied, backups,
                   preview, promise, successCount, errorCount, attempts>>

\* step 7, first loop: "for (const item of supportedChanges)"
RECURSIVE applyModifications(_, _, _)
applyModifications(items, k, st) ==
    IF k > Len(items) THEN st
    ELSE LET w == writeFileSync(st.fs, items[k].targetFilePath, items[k].newContent)
         IN  applyModifications(items, k + 1,
                 [fs |-> w.fs,
                  tempFiles |-> st.tempFiles \ {items[k].targetFilePath},
                  successCount |-> IF w.threw THEN st.successCount ELSE st.successCount + 1,
                  errorCount |-> IF w.threw THEN st.errorCount + 1 ELSE st.errorCount,
                  attempts |-> st.attempts \cup {<<"mod", k>>}])

\* step 7, second loop: "for (const item of deletedFiles)"
RECURSIVE applyDeletions(_, _, _)
applyDeletions(items, k, st) ==
    IF k > Len(items) THEN st
    ELSE LET u == unlinkSync(st.fs, items[k].targetFilePath)
         IN  applyDeletions(items, k + 1,
                 [fs |-> u.fs,
                  tempFiles |-> st.tempFiles,
                  successCount |-> IF u.threw THEN st.successCount ELSE st.successCount + 1,
                  errorCount |-> IF u.threw THEN st.errorCount + 1 ELSE st.errorCount,
                  attempts |-> st.attempts \cup {<<"del", k>>}])

\* step 7 with its final message
ApplyAllChanges ==
    LET st == applyDeletions(deletedFiles, 1,
                  applyModifications(supportedChanges, 1,
                      [fs |-> fs, tempFiles |-> tempFiles, successCount |-> 0,
                       errorCount |-> 0, attempts |-> attempts]))
    IN  /\ fs' = st.fs
        /\ tempFiles' = st.tempFiles
        /\ successCount' = st.successCount
        /\ errorCount' = st.errorCount
        /\ attempts' = st.attempts
        /\ report' = IF st.errorCount = 0 THEN "success" ELSE "warning"
        /\ hpc' = "done"

\* the prompt returns 'Yes' or, when it is dismissed, undefined: neither is
\* 'No' or 'Preview Changes', so step 7 runs
AnswerYes ==
    /\ hpc = "prompt"
    /\ \E a \in {"Yes", "dismissed"} : answer' = a
    /\ ApplyAllChanges
    /\ UNCHANGED <<pc, parseVars, applyVars, taskVars>>
    /\ UNCHANGED <<unwritable, fsBefore, supportedChanges, deletedFiles, applierCalls, panel,
                   isApplying, changesApplied, backups, preview, promise>>

\* the prompt returns 'No': the temporary files are removed
AnswerNo ==
    /\ hpc = "prompt"
    /\ answer' = "No"
    /\ tempFiles' = {}
    /\ hpc' = "done"
    /\ UNCHANGED <<pc, parseVars, applyVars, taskVars>>
    /\ UNCHANGED <<fs, unwritable, fsBefore, supportedChanges, deletedFiles, applierCalls, panel,
                   isApplying, changesApplied, backups, preview, promise, successCount,
                   errorCount, report, attempts>>

\* showLiveDiffPreview up to its "return new Promise": the panel is
\* created and every existing target of supportedChanges is backed up
backupsOf(files, items) ==
    [p \in {items[k].targetFilePath : k \in {n \in 1..Len(items) :
                                              existsSync(files, items[n].targetFilePath)}}
        |-> files[p].content]

\* the prompt returns 'Preview Changes'
AnswerPreview ==
    /\ hpc = "prompt"
    /\ answer' = "Preview Changes"
    /\ hpc' = "preview"
    /\ panel' = "open"
    /\ backups' = backupsOf(fs, supportedChanges)
    /\ isApplying' = FALSE
    /\ changesApplied' = FALSE
    /\ promise' = "pending"
    /\ preview' = [phase |-> "mod", i |-> 1, at |-> "loading"]
    /\ UNCHANGED <<pc, parseVars, applyVars, taskVars>>
    /\ UNCHANGED <<fs, unwritable, fsBefore, tempFiles, supportedChanges, deletedFiles, applierCalls,
                   successCount, errorCount, report, attempts>>

\* the head of an iteration of the second loop of startLivePreview, up to
\* its delay: the flag is tested, then the file is read; after the loop
\* 'showComplete' is posted
deletedLoopHead(i, applying, files) ==
    IF i > Len(deletedFiles) THEN [phase |-> "del", i |-> i, at |-> "complete"]
    ELSE IF ~applying THEN [phase |-> "del", i |-> i, at |-> "stopped"]
    ELSE IF ~existsSync(files, deletedFiles[i].targetFilePath)
    THEN [phase |-> "del", i |-> i, at |-> "crashed"]
    ELSE [phase |-> "del", i |-> i, at |-> "delay"]

\* the head of an iteration of the first loop, up to its delay
loopHead(phase, i, applying, files) ==
    IF phase = "del" THEN deletedLoopHead(i, applying, files)
    ELSE IF i > Len(supportedChanges) THEN deletedLoopHead(1, applying, files)
    ELSE IF ~applying THEN [phase |-> "mod", i |-> i, at |-> "stopped"]
    ELSE [phase |-> "mod", i |-> i, at |-> "delay"]

\* the webview posts 'ready': startLivePreview runs up to its first delay
WebviewReady ==
    /\ panel = "open"
    /\ preview.at = "loading"
    /\ isApplying' = TRUE
    /\ preview' = loopHead("mod", 1, TRUE, fs)
    /\ UNCHANGED <<pc, parseVars, applyVars, taskVars>>
    /\ UNCHANGED <<hpc, answer, fs, unwritable, fsBefore, tempFiles, supportedChanges, deletedFiles,
                   applierCalls, panel, changesApplied, backups, promise, successCount,
                   errorCount, report, attempts>>

\* the delay of an iteration is over: the file is written or deleted; an
\* exception ends startLivePreview, which has no handler for it
PreviewApplyChange ==
    /\ preview.at = "delay"
    /\ LET r == IF preview.phase = "mod"
                THEN writeFileSync(fs, supportedChanges[preview.i].targetFilePath,
                                   supportedChanges[preview.i].newContent)
                ELSE unlinkSync(fs, deletedFiles[preview.i].targetFilePath)
       IN  /\ fs' = r.fs
           /\ changesApplied' = IF r.threw THEN changesApplied ELSE TRUE
           /\ preview' = [preview EXCEPT !.at = IF r.threw THEN "crashed" ELSE "pause"]
    /\ attempts' = attempts \cup {<<preview.phase, preview.i>>}
    /\ UNCHANGED <<pc, parseVars, applyVars, taskVars>>
    /\ UNCHANGED <<hpc, answer, unwritable, fsBefore, tempFiles, supportedChanges, deletedFiles,
                   applierCalls, panel, isApplying, backups, promise, successCount,
                   errorCount, report>>

\* the pause after an iteration is over: the next iteration starts
PreviewNextFile ==
    /\ preview.at = "pause"
    /\ preview' = loopHead(preview.phase, preview.i + 1, isApplying, fs)
    /\ UNCHANGED <<pc, parseVars, applyVars, taskVars>>
    /\ UNCHANGED <<hpc, answer, fs, unwritable, fsBefore, tempFiles, supportedChanges, deletedFiles,
                   applierCalls, panel, isApplying, changesApplied, backups, promise,
                   successCount, errorCount, report, attempts>>

\* panel.onDidDispose: the flag is cleared and the temporary files removed;
\* the promise is left as it is
OnDidDispose ==
    /\ panel' = "disposed"
    /\ isApplying' = FALSE
    /\ tempFiles' = {}

\* the user closes the panel
ClosePanel ==
    /\ panel = "open"
    /\ OnDidDispose
    /\ UNCHANGED <<pc, parseVars, applyVars, taskVars>>
    /\ UNCHANGED <<hpc, answer, fs, unwritable, fsBefore, supportedChanges, deletedFiles,
                   applierCalls, changesApplied, backups, preview, promise, successCount,
                   errorCount, report, attempts>>

\* the two buttons are disabled until the webview has received 'showComplete'
ButtonsEnabled == panel = "open" /\ preview.at = "complete"

\* case 'accept'
ClickAccept ==
    /\ ButtonsEnabled
    /\ OnDidDispose
    /\ promise' = "true"
    /\ UNCHANGED <<pc, parseVars, applyVars, taskVars>>
    /\ UNCHANGED <<hpc, answer, fs, unwritable, fsBefore, supportedChanges, deletedFiles,
                   applierCalls, changesApplied, backups, preview, successCount,
                   errorCount, report, attempts>>

RECURSIVE restoreDeleted(_, _, _)
restoreDeleted(files, items, k) ==
    IF k > Len(items) THEN files
    ELSE restoreDeleted(
             IF items[k].targetFilePath \in DOMAIN backups
             THEN writeFileSync(files, items[k].targetFilePath,
                                backups[items[k].targetFilePath]).fs
             ELSE files,
             items, k + 1)

RECURSIVE removeNewFiles(_, _, _)
removeNewFiles(files, items, k) ==
    IF k > Len(items) THEN files
    ELSE removeNewFiles(
             IF items[k].change.isNew /\ existsSync(files, items[k].targetFilePath)
             THEN unlinkSync(files, items[k].targetFilePath).fs
             ELSE files,
             items, k + 1)

\* rollbackChanges: the backups are written back, the deleted files that
\* have a backup are written back, the targets of new-file records removed
rollbackChanges(files) ==
    LET restored == [p \in DOMAIN files |->
                        IF p \in DOMAIN backups
                        THEN writeFileSync(files, p, backups[p]).fs[p]
                        ELSE files[p]]
    IN  removeNewFiles(restoreDeleted(restored, deletedFiles, 1), supportedChanges, 1)

\* case 'reject'
ClickReject ==
    /\ ButtonsEnabled
    /\ fs' = IF changesApplied THEN rollbackChanges(fs) ELSE fs
    /\ OnDidDispose
    /\ promise' = "false"
    /\ UNCHANGED <<pc, parseVars, applyVars, taskVars>>
    /\ UNCHANGED <<hpc, answer, unwritable, fsBefore, supportedChanges, deletedFiles, applierCalls,
                   changesApplied, backups, preview, successCount, errorCount, report,
                   attempts>>

\* "const accepted = await showLiveDiffPreview(...)" returns: step 7 when
\* accepted, else the temporary files are removed and the handler returns
AfterPreview ==
    /\ hpc = "preview"
    /\ promise \in {"true", "false"}
    /\ IF promise = "true"
       THEN ApplyAllChanges
       ELSE /\ tempFiles' = {}
            /\ hpc' = "done"
            /\ UNCHANGED <<fs, successCount, errorCount, report, attempts>>
    /\ UNCHANGED <<pc, parseVars, applyVars, taskVars>>
    /\ UNCHANGED <<answer, unwritable, fsBefore, supportedChanges, deletedFiles, applierCalls, panel,
                   isApplying, changesApplied, backups, preview, promise>>

NextHandler ==
    \/ PrepareChanges
    \/ AnswerYes
    \/ AnswerNo
    \/ AnswerPreview
    \/ WebviewReady
    \/ PreviewApplyChange
    \/ PreviewNextFile
    \/ ClosePanel
    \/ ClickAccept
    \/ ClickReject
    \/ AfterPreview

SpecHandler == InitHandler /\ [][NextHandler]_vars

(***************************************************************************)
(* Claims about the handler, checked under SpecHandler.                    *)
(***************************************************************************)
BatchItems ==
    {<<"mod", k>> : k \in 1..Len(supportedChanges)}
        \cup {<<"del", k>> : k \in 1..Len(deletedFiles)}

Reported == hpc = "done" /\ report \in {"success", "warning"}

\* startLivePreview has ended, by running through its loops or by an
\* exception, and not because the panel was closed
PreviewLoopEnded == preview.at \in {"complete", "crashed"}

\* C13: in a batch, applied directly after 'Yes' or through the live
\* preview, a failure on one file does not keep the other files and
\* deletions from being attempted: when the preview loop has ended, and
\* when step 7 has reported, every item of supportedChanges and
\* deletedFiles has been attempted, and the report's successCount +
\* errorCount is the number of items.
C13_FailureDoesNotStopTheBatch ==
    /\ PreviewLoopEnded => BatchItems \subseteq attempts
    /\ Reported
       => /\ BatchItems \subseteq attempts
          /\ successCount + errorCount = Len(supportedChanges) + Len(deletedFiles)

Prepared == hpc /= "start"

\* C22: the handler never calls applyPatchToContent for a record with
\* isDeleted or with fileType directory or binary: the records handed to
\* the applier are, in order, the records of fileType file without
\* isDeleted, for every list of parsed records.
C22_ApplierGetsSupportedRecordsOnly ==
    Prepared =>
        /\ \A k \in 1..Len(applierCalls) :
               applierCalls[k].fileType = "file" /\ ~applierCalls[k].isDeleted
        /\ Len(applierCalls)
               = Cardinality({k \in 1..Len(parsed.fileChanges) :
                                 /\ parsed.fileChanges[k].fileType = "file"
                                 /\ ~parsed.fileChanges[k].isDeleted})

\* a patch that deletes an existing file and changes another: the first is
\* on the deletion list, the second went through the applier
C22_Witness ==
    /\ Prepared
    /\ Len(parsed.fileChanges) = 2
    /\ parsed.fileChanges[1].isDeleted
    /\ Len(deletedFiles) = 1
    /\ Len(applierCalls) = 1
    /\ applierCalls[1] = parsed.fileChanges[2]

TargetPaths ==
    {supportedChanges[k].targetFilePath : k \in 1..Len(supportedChanges)}
        \cup {deletedFiles[k].targetFilePath : k \in 1..Len(deletedFiles)}

SameAsBefore == \A p \in TargetPaths : fs[p] = fsBefore[p]

\* C25: the command changes the workspace only on an affirmative answer:
\* when it has ended after 'No' or after the prompt was dismissed without
\* a choice, every target file has the existence and the content it had
\* before the command.
C25_NoChangeWithoutConsent ==
    (hpc = "done" /\ answer \in {"No", "dismissed"}) => SameAsBefore

\* C26: reject is a full rollback: after the live preview has applied its
\* changes and the user has rejected (no path being unwritable), every
\* path of supportedChanges and deletedFiles has the existence and the
\* content it had before the preview started.
C26_RejectRestoresEverything ==
    (promise = "false" /\ changesApplied /\ unwritable = {}) => SameAsBefore

\* C27: each change is carried out once: after Preview Changes and Accept,
\* with no file-system fault, the final report is the success message with
\* errorCount = 0 and successCount equal to the number of files.
C27_AcceptReportsSuccess ==
    (Reported /\ answer = "Preview Changes" /\ unwritable = {})
    => /\ report = "success"
       /\ errorCount = 0
       /\ successCount = Len(supportedChanges) + Len(deletedFiles)

\* C28: the promise of showLiveDiffPreview is resolved on every way the
\* preview can end: once the panel is disposed, by accept, by reject or by
\* closing it, the promise is resolved.
C28_DisposedPanelResolvesPromise ==
    panel = "disposed" => promise \in {"true", "false"}

\* C29: disposal stops the live preview: a step of the startLivePreview
\* loop taken after the panel has been disposed writes and deletes no file,
\* also when the panel was disposed while the loop was in its delay.
C29_NoWriteAfterDispose ==
    [][(panel = "disposed" /\ preview' /= preview) => fs' = fs]_vars

=============================================================================
